---- MODULE Spec2Model ----
(***************************************************************************)
(* Model of src/websockets.rs: the WebSockets dispatcher of binance-rs.    *)
(* Frames, URLs and tokens are strings; str::find / str::rfind and the     *)
(* chars().skip().take() extraction are computed on them character by      *)
(* character.  JSON decoding (serde_json::from_str into the types of       *)
(* model.rs) is the inverse of a serializer over a bounded set of JSON     *)
(* values, followed by the required-field check of the target type.        *)
(***************************************************************************)
EXTENDS Integers, Sequences, FiniteSets, TLC

(* ------------------------------ bounds --------------------------------- *)

\* frames read by one run of event_loop
MaxFrames == 2
\* stream names passed to one connect_multiple_streams call
MaxStreams == 2
MaxPieces == 5

(* ------------------------- statics of the module ----------------------- *)

WEBSOCKET_URL == "wss://stream.binance.com:9443/ws/"
WEBSOCKET_MULTI_STREAM == "wss://stream.binance.com:9443/stream?streams="
STREAM == "stream"
OUTBOUND_ACCOUNT_INFO == "outboundAccountInfo"
EXECUTION_REPORT == "executionReport"
KLINE == "kline"
AGGREGATED_TRADE == "aggTrade"
DEPTH_ORDERBOOK == "depthUpdate"
PARTIAL_ORDERBOOK == "lastUpdateId"
DAYTICKER == "24hrTicker"

\* Option::None of an index, of a handler slot and of the socket
None == -1
NoHandler == 0
NoSocket == "None"

(* ----------------------------- str helpers ----------------------------- *)

\* UTF-8 width of a character: one byte for the ASCII characters, two for
\* the one non-ASCII character of the frames
Utf8Width(c) == IF c = "é" THEN 2 ELSE 1

\* s.len() : the length of a string in BYTES
ByteLen(s) ==
    Len(s) + Cardinality({i \in 1..Len(s) : Utf8Width(SubSeq(s, i, i)) = 2})

\* character positions (1-based) at which t occurs in m
Occurrences(m, t) ==
    {i \in 1..(Len(m) - Len(t) + 1) : SubSeq(m, i, i + Len(t) - 1) = t}

\* str::find : BYTE offset of the first occurrence, or None
find(m, t) ==
    LET I == Occurrences(m, t)
    IN IF I = {} THEN None
       ELSE LET i == CHOOSE i \in I : \A j \in I : i <= j
            IN ByteLen(SubSeq(m, 1, i - 1))

\* str::rfind : BYTE offset of the last occurrence, or None
rfind(m, t) ==
    LET I == Occurrences(m, t)
    IN IF I = {} THEN None
       ELSE LET i == CHOOSE i \in I : \A j \in I : i >= j
            IN ByteLen(SubSeq(m, 1, i - 1))

\* msg.chars().skip(n).take(k).collect() : counts CHARACTERS
SkipTake(m, n, k) ==
    LET first == n + 1
        last  == IF k >= Len(m) - n THEN Len(m) ELSE n + k
    IN IF first > Len(m) THEN "" ELSE SubSeq(m, first, last)

\* usize::MAX; TLC integers are 32 bits wide, and all that the code depends
\* on is that a wrapped difference exceeds the length of every frame
UsizeMax == 2147483647

\* a - b - 1 on usize in a build without overflow checks (wrapping)
WrappingSub1(a, b) == IF a - b - 1 >= 0 THEN a - b - 1 ELSE UsizeMax + (a - b)

(* --------------------- JSON values and serde_json ---------------------- *)

\* JSON values, all of one record shape: t is the kind, s a string, n a
\* number, o the members <<[k, v], ...>> of an object, a the elements of
\* an array
JStr(s) == [t |-> "str", s |-> s, n |-> 0, o |-> <<>>, a |-> <<>>]
JNum(n) == [t |-> "num", s |-> "", n |-> n, o |-> <<>>, a |-> <<>>]
JNull == [t |-> "null", s |-> "", n |-> 0, o |-> <<>>, a |-> <<>>]
JObj(o) == [t |-> "obj", s |-> "", n |-> 0, o |-> o, a |-> <<>>]
JArr(a) == [t |-> "arr", s |-> "", n |-> 0, o |-> <<>>, a |-> a]
Member(k, v) == [k |-> k, v |-> v]

RECURSIVE Digits(_)
Digits(n) == IF n < 10 THEN SubSeq("0123456789", n + 1, n + 1)
             ELSE Digits(n \div 10) \o Digits(n % 10)

\* the text of a JSON value, as the exchange writes it (no white space)
RECURSIVE Ser(_)
RECURSIVE SerMembers(_)
RECURSIVE SerElements(_)
Ser(v) ==
    CASE v.t = "str"  -> "\"" \o v.s \o "\""
      [] v.t = "num"  -> Digits(v.n)
      [] v.t = "null" -> "null"
      [] v.t = "obj"  -> "{" \o SerMembers(v.o) \o "}"
      [] v.t = "arr"  -> "[" \o SerElements(v.a) \o "]"
SerMembers(o) ==
    IF o = <<>> THEN ""
    ELSE "\"" \o o[1].k \o "\":" \o Ser(o[1].v)
         \o (IF Len(o) = 1 THEN "" ELSE "," \o SerMembers(Tail(o)))
SerElements(a) ==
    IF a = <<>> THEN ""
    ELSE Ser(a[1]) \o (IF Len(a) = 1 THEN "" ELSE "," \o SerElements(Tail(a)))

(* ------------------- the typed events of model.rs ---------------------- *)

\* the fields each type requires, with the JSON kind of each; other fields
\* of the frame are ignored by the derived Deserialize
Required(T) ==
    CASE T = "AccountUpdateEvent" ->
            <<Member("e", "str"), Member("E", "num"), Member("B", "arr")>>
      [] T = "OrderTradeEvent" ->
            <<Member("e", "str"), Member("E", "num"), Member("s", "str"),
              Member("i", "num")>>
      [] T = "TradesEvent" ->
            <<Member("e", "str"), Member("E", "num"), Member("s", "str"),
              Member("a", "num")>>
      [] T = "DayTickerEvent" ->
            <<Member("e", "str"), Member("E", "num"), Member("s", "str")>>
      [] T = "KlineEvent" ->
            <<Member("e", "str"), Member("E", "num"), Member("s", "str"),
              Member("k", "obj")>>
      [] T = "OrderBook" ->
            <<Member("lastUpdateId", "num"), Member("bids", "arr"),
              Member("asks", "arr")>>
      [] T = "DepthOrderBookEvent" ->
            <<Member("e", "str"), Member("E", "num"), Member("s", "str"),
              Member("u", "num")>>

\* Result<T>: Err, or Ok with the decoded event (written as the text of
\* its fields)
DecodeErr == [ok |-> FALSE, event |-> ""]
DecodeOk(e) == [ok |-> TRUE, event |-> e]

HasField(o, r) == \E i \in 1..Len(o) : o[i].k = r.k /\ o[i].v.t = r.v
Field(o, k) == o[CHOOSE i \in 1..Len(o) : o[i].k = k].v

\* Deserialize of a struct T from a parsed JSON value
FromValue(T, v) ==
    LET req == Required(T)
    IN IF v.t = "obj" /\ \A i \in 1..Len(req) : HasField(v.o, req[i])
       THEN DecodeOk(Ser(JObj([i \in 1..Len(req) |->
                                  Member(req[i].k, Field(v.o, req[i].k))])))
       ELSE DecodeErr

RECURSIVE JoinEvents(_)
JoinEvents(es) ==
    IF es = <<>> THEN ""
    ELSE es[1] \o (IF Len(es) = 1 THEN "" ELSE "," \o JoinEvents(Tail(es)))

\* Deserialize of Vec<T>
FromValueVec(T, v) ==
    IF v.t = "arr" /\ \A i \in 1..Len(v.a) : FromValue(T, v.a[i]).ok
    THEN DecodeOk("[" \o JoinEvents([i \in 1..Len(v.a) |->
                                       FromValue(T, v.a[i]).event]) \o "]")
    ELSE DecodeErr

(* ------------------------ frames of the exchange ----------------------- *)

\* the event time E of the payloads
EventTime == 123

AccountUpdatePayload ==
    JObj(<<Member("e", JStr(OUTBOUND_ACCOUNT_INFO)), Member("E", JNum(EventTime)),
           Member("B", JArr(<<>>))>>)
OrderTradePayload ==
    JObj(<<Member("e", JStr(EXECUTION_REPORT)), Member("E", JNum(EventTime)),
           Member("s", JStr("BNBUSDT")), Member("i", JNum(4))>>)
AggTradePayload ==
    JObj(<<Member("e", JStr(AGGREGATED_TRADE)), Member("E", JNum(EventTime)),
           Member("s", JStr("BNBUSDT")), Member("a", JNum(42))>>)
DayTickerPayload ==
    JArr(<<JObj(<<Member("e", JStr(DAYTICKER)), Member("E", JNum(EventTime)),
                  Member("s", JStr("BNBUSDT"))>>)>>)
KlinePayload ==
    JObj(<<Member("e", JStr(KLINE)), Member("E", JNum(EventTime)),
           Member("s", JStr("BNBUSDT")),
           Member("k", JObj(<<Member("t", JNum(EventTime))>>))>>)
PartialBookPayload ==
    JObj(<<Member(PARTIAL_ORDERBOOK, JNum(EventTime)), Member("bids", JArr(<<>>)),
           Member("asks", JArr(<<>>))>>)
DepthPayload ==
    JObj(<<Member("e", JStr(DEPTH_ORDERBOOK)), Member("E", JNum(EventTime)),
           Member("s", JStr("BNBUSDT")), Member("u", JNum(EventTime))>>)
\* a depth delta that mentions the id of the snapshot it follows
DepthMentionsSnapshot ==
    JObj(<<Member("e", JStr(DEPTH_ORDERBOOK)), Member("E", JNum(EventTime)),
           Member("s", JStr("BNBUSDT")), Member("u", JNum(EventTime)),
           Member(PARTIAL_ORDERBOOK, JNum(0))>>)
\* an order book snapshot that carries the tag of the delta stream
SnapshotMentionsDepth ==
    JObj(<<Member(PARTIAL_ORDERBOOK, JNum(EventTime)), Member("bids", JArr(<<>>)),
           Member("asks", JArr(<<>>)), Member("e", JStr(DEPTH_ORDERBOOK))>>)
\* a frame of a type the dispatcher does not know
UnknownPayload ==
    JObj(<<Member("result", JNull), Member("id", JNum(EventTime))>>)

\* {"stream":"<streamName>","data":<rawPayload>}
Envelope(name, payload) ==
    JObj(<<Member(STREAM, JStr(name)), Member("data", payload)>>)

Payloads ==
    {AccountUpdatePayload, OrderTradePayload, AggTradePayload,
     DayTickerPayload, KlinePayload, PartialBookPayload, DepthPayload,
     DepthMentionsSnapshot, SnapshotMentionsDepth, UnknownPayload}

StreamNames == {"bnbusdt@aggTrade", "bnbusdt@depth"}

Enveloped == {Envelope(n, p) : n \in StreamNames, p \in Payloads}

\* every JSON value the model can serialize: the domain of the parser
JsonValues == Payloads \cup Enveloped

\* frames that are not JSON: the S5 frame, and a payload cut short
MalformedFrames ==
    {"{\"e\":\"kline\",\"k\": not-an-object}"}
    \cup {LET f == Ser(AggTradePayload) IN SubSeq(f, 1, Len(f) - 1)}

\* serde_json::from_str as the inverse of Ser: the texts of the JSON values
Texts == {[text |-> Ser(v), value |-> v] : v \in JsonValues}
Parses(s) == \E r \in Texts : r.text = s
Parse(s) == (CHOOSE r \in Texts : r.text = s).value

from_str(T, s) ==
    IF Parses(s) THEN FromValue(T, Parse(s)) ELSE DecodeErr
from_str_vec(T, s) ==
    IF Parses(s) THEN FromValueVec(T, Parse(s)) ELSE DecodeErr

(* ------------------------------ handle_msg ----------------------------- *)

\* Branch with the depthUpdate test moved in front of the lastUpdateId test
Branch_depth_first(msg) ==
    IF find(msg, OUTBOUND_ACCOUNT_INFO) # None THEN OUTBOUND_ACCOUNT_INFO
    ELSE IF find(msg, EXECUTION_REPORT) # None THEN EXECUTION_REPORT
    ELSE IF find(msg, AGGREGATED_TRADE) # None THEN AGGREGATED_TRADE
    ELSE IF find(msg, DAYTICKER) # None THEN DAYTICKER
    ELSE IF find(msg, KLINE) # None THEN KLINE
    ELSE IF find(msg, DEPTH_ORDERBOOK) # None THEN DEPTH_ORDERBOOK
    ELSE IF find(msg, PARTIAL_ORDERBOOK) # None THEN PARTIAL_ORDERBOOK
    ELSE IF find(msg, STREAM) # None THEN STREAM
    ELSE ""

\* the token whose test succeeds first in the chain, "" when none does
\* Branch with the stream test in front of the seven family tests
Branch_stream_first(msg) ==
    IF find(msg, STREAM) # None THEN STREAM
    ELSE IF find(msg, OUTBOUND_ACCOUNT_INFO) # None THEN OUTBOUND_ACCOUNT_INFO
    ELSE IF find(msg, EXECUTION_REPORT) # None THEN EXECUTION_REPORT
    ELSE IF find(msg, AGGREGATED_TRADE) # None THEN AGGREGATED_TRADE
    ELSE IF find(msg, DAYTICKER) # None THEN DAYTICKER
    ELSE IF find(msg, KLINE) # None THEN KLINE
    ELSE IF find(msg, PARTIAL_ORDERBOOK) # None THEN PARTIAL_ORDERBOOK
    ELSE IF find(msg, DEPTH_ORDERBOOK) # None THEN DEPTH_ORDERBOOK
    ELSE ""

Branch(msg) ==
    IF find(msg, OUTBOUND_ACCOUNT_INFO) # None THEN OUTBOUND_ACCOUNT_INFO
    ELSE IF find(msg, EXECUTION_REPORT) # None THEN EXECUTION_REPORT
    ELSE IF find(msg, AGGREGATED_TRADE) # None THEN AGGREGATED_TRADE
    ELSE IF find(msg, DAYTICKER) # None THEN DAYTICKER
    ELSE IF find(msg, KLINE) # None THEN KLINE
    ELSE IF find(msg, PARTIAL_ORDERBOOK) # None THEN PARTIAL_ORDERBOOK
    ELSE IF find(msg, DEPTH_ORDERBOOK) # None THEN DEPTH_ORDERBOOK
    ELSE IF find(msg, STREAM) # None THEN STREAM
    ELSE ""

\* what one call of handle_msg does: how it ends ("return", "panic" or
\* "stack_overflow"), the handler calls it makes, the branch taken at each
\* level of the recursion with the string it was taken on, and whether
\* i_end_ - i_msg_ - 1 overflowed on the way
Outcome(o, calls, here) ==
    [outcome |-> o, calls |-> calls, trace |-> <<here>>, overflowed |-> FALSE]

\* Deliver with the handler invoked a second time
Deliver_twice(here, res, slot, method) ==
    IF ~res.ok THEN Outcome("panic", <<>>, here)
    ELSE IF slot # NoHandler
         THEN Outcome("return",
                      <<[handler |-> slot, method |-> method,
                         event |-> res.event],
                        [handler |-> slot, method |-> method,
                         event |-> res.event]>>, here)
         ELSE Outcome("return", <<>>, here)

\* Deliver with unwrap_or_default() in place of unwrap(): a frame that
\* fails to decode reaches the handler as an empty event
Deliver_unchecked(here, res, slot, method) ==
    IF slot # NoHandler
    THEN Outcome("return",
                 <<[handler |-> slot, method |-> method,
                    event |-> res.event]>>, here)
    ELSE Outcome("return", <<>>, here)

\* from_str(..).unwrap() followed by if let Some(ref h) = slot { h.method(&event) }
Deliver(here, res, slot, method) ==
    IF ~res.ok THEN Outcome("panic", <<>>, here)
    ELSE IF slot # NoHandler
         THEN Outcome("return",
                      <<[handler |-> slot, method |-> method,
                         event |-> res.event]>>, here)
         ELSE Outcome("return", <<>>, here)

\* the chain closed by else { panic!() }
no_branch_panics(here) == Outcome("panic", <<>>, here)

\* the end of the chain without a final else: no branch is taken
no_branch(here) == Outcome("return", <<>>, here)

\* overflow_checks: the build panics on arithmetic overflow (debug profile)
\* instead of wrapping (release profile)
RECURSIVE handle_msg(_, _, _)
handle_msg(self, msg, overflow_checks) ==
    LET b == Branch(msg)
        here == [msg |-> msg, branch |-> b]
    IN CASE b = OUTBOUND_ACCOUNT_INFO ->
              Deliver(here, from_str("AccountUpdateEvent", msg),
                      self.user_stream_handler, "account_update_handler")
         [] b = EXECUTION_REPORT ->
              Deliver(here, from_str("OrderTradeEvent", msg),
                      self.user_stream_handler, "order_trade_handler")
         [] b = AGGREGATED_TRADE ->
              Deliver(here, from_str("TradesEvent", msg),
                      self.market_handler, "aggregated_trades_handler")
         [] b = DAYTICKER ->
              Deliver(here, from_str_vec("DayTickerEvent", msg),
                      self.ticker_handler, "day_ticker_handler")
         [] b = KLINE ->
              Deliver(here, from_str("KlineEvent", msg),
                      self.kline_handler, "kline_handler")
         [] b = PARTIAL_ORDERBOOK ->
              Deliver(here, from_str("OrderBook", msg),
                      self.market_handler, "partial_orderbook_handler")
         [] b = DEPTH_ORDERBOOK ->
              Deliver(here, from_str("DepthOrderBookEvent", msg),
                      self.market_handler, "depth_orderbook_handler")
         [] b = STREAM ->
              LET i_msg == find(msg, "\"data\":")
                  i_end == rfind(msg, "}")
              IN IF i_msg # None /\ i_end # None
                 THEN LET overflows == i_end - i_msg - 1 < 0
                          sub_string ==
                              SkipTake(msg, i_msg, WrappingSub1(i_end, i_msg))
                      IN IF overflows /\ overflow_checks
                         THEN [Outcome("panic", <<>>, here)
                                  EXCEPT !.overflowed = TRUE]
                         ELSE IF sub_string = msg
                         THEN [Outcome("stack_overflow", <<>>, here)
                                  EXCEPT !.overflowed = overflows]
                         ELSE LET r == handle_msg(self, sub_string,
                                                  overflow_checks)
                              IN [r EXCEPT !.trace = <<here>> \o @,
                                           !.overflowed = @ \/ overflows]
                 ELSE Outcome("return", <<>>, here)
         [] OTHER -> no_branch(here)

\* the outcomes of handle_msg over the build profiles: they differ only
\* when the subtraction overflows
handle_msg_outcomes(self, msg) ==
    LET checked == handle_msg(self, msg, TRUE)
    IN IF checked.overflowed
       THEN {checked, handle_msg(self, msg, FALSE)}
       ELSE {checked}

(* --------------------------- the dispatcher ---------------------------- *)

VARIABLES
    socket,               \* self.socket: NoSocket, or the connection held,
                          \* named by the base URL it was opened on
    user_stream_handler,  \* the four handler slots: NoHandler or a handler id
    market_handler,
    ticker_handler,
    kline_handler,
    pc,                   \* "idle": event_loop not called; "loop": at the top
                          \* of the loop; "handle": a frame is read and not
                          \* yet handled; "panicked" / "aborted": unwound
    msg_opt,              \* the local msg_opt of the loop body: <<>>, or <<msg>>
                          \* from the read of a frame until the next read
    source,               \* the Frame Source: "open", or how it ended
    nread,                \* frames read from the socket so far
    calls,                \* the handler invocations made so far, in order
    trace,                \* the branches taken by handle_msg on the frame of
                          \* this iteration, one per level of recursion
    args,                 \* the strings handle_msg was called on for that
                          \* frame, one per level of recursion
    last_call,            \* the latest call made on the dispatcher by its
                          \* owner, with its arguments and what it returned
    last_added,           \* per slot, the handler passed to its latest add call
    replaced              \* some add call found its slot already filled

vars == <<socket, user_stream_handler, market_handler, ticker_handler,
          kline_handler, pc, msg_opt, source, nread, calls, trace, args,
          last_call, last_added, replaced>>

slots == <<user_stream_handler, market_handler, ticker_handler, kline_handler>>
loop_vars == <<pc, msg_opt, source, nread, calls, trace, args>>

this == [user_stream_handler |-> user_stream_handler,
         market_handler |-> market_handler,
         ticker_handler |-> ticker_handler,
         kline_handler |-> kline_handler]

\* the handler objects of the caller: two of them tell a replaced handler
\* from the one that replaced it
HandlerIds == {1, 2}

\* a call of a method of the dispatcher: its name, the endpoints or the
\* handler passed, and for the two connect methods the URL built, the answer
\* of the handshake and the Result returned
Call(method, endpoints, handler) ==
    [method |-> method, endpoints |-> endpoints, handler |-> handler,
     wss |-> "", accepted |-> FALSE, result |-> ""]

\* WebSockets::new()
Init ==
    /\ socket = NoSocket
    /\ user_stream_handler = NoHandler
    /\ market_handler = NoHandler
    /\ ticker_handler = NoHandler
    /\ kline_handler = NoHandler
    /\ pc = "idle"
    /\ msg_opt = <<>>
    /\ source = "open"
    /\ nread = 0
    /\ calls = <<>>
    /\ trace = <<>>
    /\ args = <<>>
    /\ last_call = Call("new", <<>>, NoHandler)
    /\ last_added = [user_stream_handler |-> NoHandler,
                     market_handler |-> NoHandler,
                     ticker_handler |-> NoHandler,
                     kline_handler |-> NoHandler]
    /\ replaced = FALSE

\* Url::parse: an absolute URL needs a scheme
UrlParses(wss) == find(wss, "://") # None

\* the tail of connect and connect_multiple_streams: Url::parse(&wss)?,
\* then match connect(url): only Ok(answer) stores a socket
\* Handshake that drops the socket held when the connection fails
Handshake_drops_socket(call, base, wss, accepted) ==
    /\ socket' = IF UrlParses(wss) /\ accepted THEN base ELSE NoSocket
    /\ last_call' = [call EXCEPT
                        !.wss = wss,
                        !.accepted = accepted,
                        !.result = IF UrlParses(wss) /\ accepted
                                   THEN "Ok" ELSE "Err"]
    /\ UNCHANGED <<slots, loop_vars, last_added, replaced>>

Handshake(call, base, wss, accepted) ==
    /\ socket' = IF UrlParses(wss) /\ accepted THEN base ELSE socket
    /\ last_call' = [call EXCEPT
                        !.wss = wss,
                        !.accepted = accepted,
                        !.result = IF UrlParses(wss) /\ accepted
                                   THEN "Ok" ELSE "Err"]
    /\ UNCHANGED <<slots, loop_vars, last_added, replaced>>

connect(endpoint, accepted) ==
    /\ pc = "idle"
    /\ Handshake(Call("connect", <<endpoint>>, NoHandler),
                 WEBSOCKET_URL, WEBSOCKET_URL \o endpoint, accepted)

\* join that ends every endpoint, the last one too, with the separator
RECURSIVE join_trailing_sep(_, _)
join_trailing_sep(endpoints, sep) ==
    IF endpoints = <<>> THEN ""
    ELSE endpoints[1] \o sep \o join_trailing_sep(Tail(endpoints), sep)

\* endpoints.join("/")
RECURSIVE join(_, _)
join(endpoints, sep) ==
    IF endpoints = <<>> THEN ""
    ELSE IF Len(endpoints) = 1 THEN endpoints[1]
    ELSE endpoints[1] \o sep \o join(Tail(endpoints), sep)

connect_multiple_streams(endpoints, accepted) ==
    /\ pc = "idle"
    /\ Handshake(Call("connect_multiple_streams", endpoints, NoHandler),
                 WEBSOCKET_MULTI_STREAM,
                 WEBSOCKET_MULTI_STREAM \o join(endpoints, "/"), accepted)

add_user_stream_handler(handler) ==
    /\ pc = "idle"
    /\ user_stream_handler' = handler
    /\ last_added' = [last_added EXCEPT !.user_stream_handler = handler]
    /\ last_call' = Call("add_user_stream_handler", <<>>, handler)
    /\ replaced' = (replaced \/ user_stream_handler # NoHandler)
    /\ UNCHANGED <<socket, market_handler, ticker_handler, kline_handler,
                   loop_vars>>

\* add_market_handler that fills the slot only when it is empty
add_market_handler_keep_first(handler) ==
    /\ pc = "idle"
    /\ market_handler' =
          IF market_handler = NoHandler THEN handler ELSE market_handler
    /\ last_added' = [last_added EXCEPT !.market_handler = handler]
    /\ last_call' = Call("add_market_handler", <<>>, handler)
    /\ replaced' = (replaced \/ market_handler # NoHandler)
    /\ UNCHANGED <<socket, user_stream_handler, ticker_handler, kline_handler,
                   loop_vars>>

add_market_handler(handler) ==
    /\ pc = "idle"
    /\ market_handler' = handler
    /\ last_added' = [last_added EXCEPT !.market_handler = handler]
    /\ last_call' = Call("add_market_handler", <<>>, handler)
    /\ replaced' = (replaced \/ market_handler # NoHandler)
    /\ UNCHANGED <<socket, user_stream_handler, ticker_handler, kline_handler,
                   loop_vars>>

\* add_day_ticker_handler that also empties the kline slot
add_day_ticker_handler_clears_kline(handler) ==
    /\ pc = "idle"
    /\ ticker_handler' = handler
    /\ kline_handler' = NoHandler
    /\ last_added' = [last_added EXCEPT !.ticker_handler = handler]
    /\ last_call' = Call("add_day_ticker_handler", <<>>, handler)
    /\ replaced' = (replaced \/ ticker_handler # NoHandler)
    /\ UNCHANGED <<socket, user_stream_handler, market_handler, loop_vars>>

add_day_ticker_handler(handler) ==
    /\ pc = "idle"
    /\ ticker_handler' = handler
    /\ last_added' = [last_added EXCEPT !.ticker_handler = handler]
    /\ last_call' = Call("add_day_ticker_handler", <<>>, handler)
    /\ replaced' = (replaced \/ ticker_handler # NoHandler)
    /\ UNCHANGED <<socket, user_stream_handler, market_handler, kline_handler,
                   loop_vars>>

add_kline_handler(handler) ==
    /\ pc = "idle"
    /\ kline_handler' = handler
    /\ last_added' = [last_added EXCEPT !.kline_handler = handler]
    /\ last_call' = Call("add_kline_handler", <<>>, handler)
    /\ replaced' = (replaced \/ kline_handler # NoHandler)
    /\ UNCHANGED <<socket, user_stream_handler, market_handler, ticker_handler,
                   loop_vars>>

\* the caller enters event_loop; it takes &mut self and never returns, so
\* no other method of the dispatcher runs from here on
event_loop ==
    /\ pc = "idle"
    /\ pc' = "loop"
    /\ last_call' = Call("event_loop", <<>>, NoHandler)
    /\ UNCHANGED <<socket, slots, msg_opt, source, nread, calls, trace, args,
                   last_added, replaced>>

\* the frames the socket delivers as text
SourceFrames ==
    {Ser(v) : v \in Payloads}
    \cup {Ser(Envelope("bnbusdt@aggTrade", AggTradePayload)),
          Ser(Envelope("bnbusdt@depth", UnknownPayload))}
    \cup MalformedFrames

\* let msg_opt = match self.socket { Some(ref mut socket) => Some(msg) }:
\* socket.0.read_message().unwrap().into_text().unwrap() yields a frame
read_message(msg) ==
    /\ pc = "loop"
    /\ socket # NoSocket
    /\ nread < MaxFrames
    /\ msg_opt' = <<msg>>
    /\ nread' = nread + 1
    /\ trace' = <<>>
    /\ args' = <<>>
    /\ pc' = "handle"
    /\ UNCHANGED <<socket, slots, source, calls, last_call, last_added,
                   replaced>>

\* read_message_fails with the error skipped (if let Ok(..) instead of
\* unwrap()): the loop goes round
read_message_fails_ignored(how) ==
    /\ pc = "loop"
    /\ socket # NoSocket
    /\ source' = how
    /\ pc' = "loop"
    /\ UNCHANGED <<socket, slots, msg_opt, nread, calls, trace, args,
                   last_call, last_added, replaced>>

\* read_message() returns Err (a read error, or the connection is closed):
\* read_message().unwrap() panics
read_message_fails(how) ==
    /\ pc = "loop"
    /\ socket # NoSocket
    /\ source' = how
    /\ pc' = "panicked"
    /\ UNCHANGED <<socket, slots, msg_opt, nread, calls, trace, args,
                   last_call, last_added, replaced>>

\* no_socket that leaves the loop (None => return) instead of going round
no_socket_returns ==
    /\ pc = "loop"
    /\ socket = NoSocket
    /\ pc' = "returned"
    /\ UNCHANGED <<socket, slots, msg_opt, source, nread, calls, trace, args,
                   last_call, last_added, replaced>>

\* match self.socket { None => None }: nothing is read, the loop goes round
no_socket ==
    /\ pc = "loop"
    /\ socket = NoSocket
    /\ UNCHANGED vars

\* handle with the new invocations put in front of the earlier ones
handle_prepend ==
    /\ pc = "handle"
    /\ \E r \in handle_msg_outcomes(this, msg_opt[1]) :
          /\ calls' = [i \in 1..Len(r.calls) |->
                         [frame |-> nread, msg |-> msg_opt[1],
                          handler |-> r.calls[i].handler,
                          method |-> r.calls[i].method,
                          event |-> r.calls[i].event]] \o calls
          /\ trace' = [i \in 1..Len(r.trace) |-> r.trace[i].branch]
          /\ args' = [i \in 1..Len(r.trace) |-> r.trace[i].msg]
          /\ pc' = CASE r.outcome = "return" -> "loop"
                     [] r.outcome = "panic" -> "panicked"
                     [] r.outcome = "stack_overflow" -> "aborted"
    /\ UNCHANGED <<socket, slots, msg_opt, source, nread, last_call,
                   last_added, replaced>>

\* handle that remembers the frames delivered: a frame whose text was
\* delivered before invokes no handler again
handle_skips_repeated ==
    /\ pc = "handle"
    /\ \E r \in handle_msg_outcomes(this, msg_opt[1]) :
          /\ calls' =
                IF \E j \in 1..Len(calls) : calls[j].msg = msg_opt[1]
                THEN calls
                ELSE calls \o [i \in 1..Len(r.calls) |->
                         [frame |-> nread, msg |-> msg_opt[1],
                          handler |-> r.calls[i].handler,
                          method |-> r.calls[i].method,
                          event |-> r.calls[i].event]]
          /\ trace' = [i \in 1..Len(r.trace) |-> r.trace[i].branch]
          /\ args' = [i \in 1..Len(r.trace) |-> r.trace[i].msg]
          /\ pc' = CASE r.outcome = "return" -> "loop"
                     [] r.outcome = "panic" -> "panicked"
                     [] r.outcome = "stack_overflow" -> "aborted"
    /\ UNCHANGED <<socket, slots, msg_opt, source, nread, last_call,
                   last_added, replaced>>

\* if let Some(ref m) = msg_opt { self.handle_msg(&m) }
handle ==
    /\ pc = "handle"
    /\ \E r \in handle_msg_outcomes(this, msg_opt[1]) :
          /\ calls' = calls \o [i \in 1..Len(r.calls) |->
                         [frame |-> nread, msg |-> msg_opt[1],
                          handler |-> r.calls[i].handler,
                          method |-> r.calls[i].method,
                          event |-> r.calls[i].event]]
          /\ trace' = [i \in 1..Len(r.trace) |-> r.trace[i].branch]
          /\ args' = [i \in 1..Len(r.trace) |-> r.trace[i].msg]
          /\ pc' = CASE r.outcome = "return" -> "loop"
                     [] r.outcome = "panic" -> "panicked"
                     [] r.outcome = "stack_overflow" -> "aborted"
    /\ UNCHANGED <<socket, slots, msg_opt, source, nread, last_call,
                   last_added, replaced>>

StreamLists ==
    UNION {[1..n -> StreamNames] : n \in 0..MaxStreams}

Next ==
    \/ \E e \in StreamNames, ok \in BOOLEAN : connect(e, ok)
    \/ \E es \in StreamLists, ok \in BOOLEAN : connect_multiple_streams(es, ok)
    \/ \E h \in HandlerIds : add_user_stream_handler(h)
    \/ \E h \in HandlerIds : add_market_handler(h)
    \/ \E h \in HandlerIds : add_day_ticker_handler(h)
    \/ \E h \in HandlerIds : add_kline_handler(h)
    \/ event_loop
    \/ \E m \in SourceFrames : read_message(m)
    \/ \E how \in {"error", "end"} : read_message_fails(how)
    \/ no_socket
    \/ handle

Spec == Init /\ [][Next]_vars

(* ------------------- handle_msg on the texts of a frame ---------------- *)

\* the parts the envelope branch looks for, a family token, and a character
\* of two bytes
Pieces == {STREAM, "\"data\":", "}", KLINE, "é"}

RECURSIVE Concat(_)
Concat(pieces) ==
    IF pieces = <<>> THEN "" ELSE pieces[1] \o Concat(Tail(pieces))

\* the texts made of up to MaxPieces pieces, in every order
PieceFrames ==
    {Concat(ps) : ps \in UNION {[1..n -> Pieces] : n \in 1..MaxPieces}}

\* the frames fed to handle_msg: those of the source, every payload in an
\* envelope, and the texts made of pieces
Frames == SourceFrames \cup {Ser(v) : v \in Enveloped} \cup PieceFrames

\* event_loop has read one frame, any of Frames, on a connected dispatcher
\* with no handler or with a handler in each slot
InitFrames ==
    /\ socket = WEBSOCKET_MULTI_STREAM
    /\ \E h \in {NoHandler, 1} :
          /\ user_stream_handler = h
          /\ market_handler = h
          /\ ticker_handler = h
          /\ kline_handler = h
          /\ last_added = [user_stream_handler |-> h, market_handler |-> h,
                           ticker_handler |-> h, kline_handler |-> h]
    /\ pc = "handle"
    /\ msg_opt \in {<<m>> : m \in Frames}
    /\ source = "open"
    /\ nread = 1
    /\ calls = <<>>
    /\ trace = <<>>
    /\ args = <<>>
    /\ last_call = Call("event_loop", <<>>, NoHandler)
    /\ replaced = FALSE

SpecFrames == InitFrames /\ [][handle]_vars

(* ------------------------------ properties ----------------------------- *)

\* t occurs in m
Contains(m, t) ==
    \E i \in 1..(Len(m) - Len(t) + 1) : SubSeq(m, i, i + Len(t) - 1) = t

\* the discriminator tokens in their fixed order
DiscriminatorOrder ==
    <<"outboundAccountInfo", "executionReport", "aggTrade", "24hrTicker",
      "kline", "lastUpdateId", "depthUpdate", "stream">>

\* the first token of the order that occurs in m, "" when none does
FirstToken(m) ==
    LET present == {k \in 1..Len(DiscriminatorOrder) :
                       Contains(m, DiscriminatorOrder[k])}
    IN IF present = {} THEN ""
       ELSE DiscriminatorOrder[CHOOSE k \in present : \A j \in present : k <= j]

FamilyTokens ==
    {"outboundAccountInfo", "executionReport", "aggTrade", "24hrTicker",
     "kline", "lastUpdateId", "depthUpdate"}

\* the handler method, the decoding and the slot of each family token
MethodOf(t) ==
    CASE t = "outboundAccountInfo" -> "account_update_handler"
      [] t = "executionReport" -> "order_trade_handler"
      [] t = "aggTrade" -> "aggregated_trades_handler"
      [] t = "24hrTicker" -> "day_ticker_handler"
      [] t = "kline" -> "kline_handler"
      [] t = "lastUpdateId" -> "partial_orderbook_handler"
      [] t = "depthUpdate" -> "depth_orderbook_handler"
TokenOf(method) == CHOOSE t \in FamilyTokens : MethodOf(t) = method
DecodeAs(t, m) ==
    CASE t = "outboundAccountInfo" -> from_str("AccountUpdateEvent", m)
      [] t = "executionReport" -> from_str("OrderTradeEvent", m)
      [] t = "aggTrade" -> from_str("TradesEvent", m)
      [] t = "24hrTicker" -> from_str_vec("DayTickerEvent", m)
      [] t = "kline" -> from_str("KlineEvent", m)
      [] t = "lastUpdateId" -> from_str("OrderBook", m)
      [] t = "depthUpdate" -> from_str("DepthOrderBookEvent", m)
SlotNameOf(t) ==
    CASE t \in {"outboundAccountInfo", "executionReport"} -> "user_stream_handler"
      [] t \in {"aggTrade", "lastUpdateId", "depthUpdate"} -> "market_handler"
      [] t = "24hrTicker" -> "ticker_handler"
      [] t = "kline" -> "kline_handler"
SlotOf(t) == this[SlotNameOf(t)]

\* FirstToken and DecodeAs over the frames of the source
FirstTokenOf == [m \in SourceFrames |-> FirstToken(m)]
DecodeOf == [t \in FamilyTokens |-> [m \in SourceFrames |-> DecodeAs(t, m)]]
\* the frames of the source that carry both order book tokens
BothBookTokens ==
    {m \in SourceFrames : Contains(m, "depthUpdate") /\ Contains(m, "lastUpdateId")}

\* the frame of this iteration has been handled (and the source has not failed
\* since)
Handled == source = "open" /\ pc # "handle" /\ trace # <<>>

\* the handler invocations made for the frame of this iteration
FrameCalls == SelectSeq(calls, LAMBDA c : c.frame = nread)

\* C1: handle_msg takes the branch of the first discriminator token, in the
\* fixed order, that occurs in the frame; a frame with both depthUpdate and
\* lastUpdateId and no earlier token takes the lastUpdateId branch, any
\* invocation made for it is partial_orderbook_handler, and it is made
\* whenever the frame decodes and a market handler is registered.
C1_FirstTokenWins ==
    Handled =>
        LET m == msg_opt[1]
        IN /\ trace[1] = FirstTokenOf[m]
           /\ (m \in BothBookTokens /\ FirstTokenOf[m] = "lastUpdateId")
              => /\ trace = <<PARTIAL_ORDERBOOK>>
                 /\ \A i \in 1..Len(FrameCalls) :
                       FrameCalls[i].method = "partial_orderbook_handler"
                 /\ (pc = "loop" /\ market_handler # NoHandler)
                       => Len(FrameCalls) = 1

C1_Witness ==
    /\ Handled
    /\ msg_opt[1] = Ser(SnapshotMentionsDepth)
    /\ Len(FrameCalls) = 1
    /\ FrameCalls[1].method = "partial_orderbook_handler"

\* C2: an enveloped frame {"stream":X,"data":P} ends the iteration the same
\* way, with the same handler invocations (method, handler, event), as the
\* payload P fed directly.
C2_EnvelopeTransparent ==
    Handled =>
        \A n \in StreamNames, p \in Payloads :
            msg_opt[1] = Ser(Envelope(n, p))
            => LET direct == handle_msg(this, Ser(p), TRUE)
               IN /\ (pc = "loop") = (direct.outcome = "return")
                  /\ [i \in 1..Len(FrameCalls) |->
                         [handler |-> FrameCalls[i].handler,
                          method |-> FrameCalls[i].method,
                          event |-> FrameCalls[i].event]] = direct.calls

\* C3: a frame classified as a family whose decoding fails leaves the loop
\* running.
C3_DecodeFailureNonFatal ==
    (/\ Handled
     /\ FirstTokenOf[msg_opt[1]] \in FamilyTokens
     /\ ~DecodeOf[FirstTokenOf[msg_opt[1]]][msg_opt[1]].ok)
    => pc = "loop"

\* C4: the handler invocations are in the order of the frames read: each is
\* for a frame already read, a later invocation is for a later frame, and
\* when a frame is read and not yet handled every invocation made is for an
\* earlier frame.
C4_InOrder ==
    \A i \in 1..Len(calls) :
        /\ calls[i].frame \in 1..nread
        /\ pc = "handle" => calls[i].frame < nread
        /\ i > 1 => calls[i - 1].frame < calls[i].frame

C4_Witness ==
    /\ Len(calls) = 2
    /\ calls[1].frame = 1
    /\ calls[2].frame = 2
    /\ calls[1].method # calls[2].method

\* C5: each slot holds the handler passed to the latest add call of its
\* family, and every invocation goes to that handler.
C5_LastRegistrationWins ==
    /\ \A f \in DOMAIN last_added : this[f] = last_added[f]
    /\ \A i \in 1..Len(calls) :
          /\ calls[i].handler # NoHandler
          /\ calls[i].handler = last_added[SlotNameOf(TokenOf(calls[i].method))]

C5_Witness ==
    /\ replaced
    /\ user_stream_handler = NoHandler
    /\ ticker_handler = NoHandler
    /\ kline_handler = NoHandler
    /\ calls # <<>>
    /\ calls[1].handler = market_handler

\* C6: a frame of a family with no handler registered, well-formed or not,
\* invokes no handler and leaves the loop running.
C6_MissingHandlerHarmless ==
    (/\ Handled
     /\ FirstTokenOf[msg_opt[1]] \in FamilyTokens
     /\ SlotOf(FirstTokenOf[msg_opt[1]]) = NoHandler)
    => FrameCalls = <<>> /\ pc = "loop"

\* C7: every frame read causes at most one handler invocation.
C7_AtMostOneCall ==
    \A f \in 1..nread : Cardinality({i \in 1..Len(calls) : calls[i].frame = f}) <= 1

C7_Witness ==
    /\ Handled
    /\ nread = 2
    /\ Len(calls) = 2
    /\ Len(FrameCalls) = 1

\* C8: every handler invocation carries the event that its frame decodes to
\* as the type of the invoked method; a frame that fails to decode reaches no
\* handler.
C8_DecodedBeforeDelivered ==
    \A i \in 1..Len(calls) :
        LET d == DecodeOf[TokenOf(calls[i].method)][calls[i].msg]
        IN d.ok /\ d.event = calls[i].event

C8_Witness ==
    /\ Handled
    /\ trace[1] \in FamilyTokens
    /\ ~DecodeOf[trace[1]][msg_opt[1]].ok
    /\ SlotOf(trace[1]) # NoHandler
    /\ FrameCalls = <<>>
    /\ calls # <<>>

\* C9: a frame with none of the eight tokens invokes no handler and leaves
\* the loop running, ready for the next frame.
C9_UnknownDropped ==
    (Handled /\ FirstTokenOf[msg_opt[1]] = "")
    => FrameCalls = <<>> /\ pc = "loop"

C9_Witness ==
    /\ Handled
    /\ FirstTokenOf[msg_opt[1]] = ""
    /\ pc = "loop"
    /\ nread < MaxFrames
    /\ \A f \in DOMAIN last_added : this[f] # NoHandler

\* C10: once the Frame Source has signalled an error or its end, the loop has
\* stopped, and from then on no frame is read and no handler is invoked.
C10_ReadFailureTerminates ==
    [][/\ source' # "open" => pc' = "panicked"
       /\ source # "open" => (nread' = nread /\ calls' = calls /\ pc' = pc)]_vars

C10_Witness ==
    /\ source = "end"
    /\ pc = "panicked"
    /\ nread = 1
    /\ Len(calls) = 1

ConnectMethods == {"connect", "connect_multiple_streams"}

\* C11: a call of connect or connect_multiple_streams whose URL does not
\* parse or whose handshake is refused returns Err and leaves the socket and
\* the four slots as they were; one whose handshake succeeds returns Ok and
\* holds a socket; no other step changes the socket.
C11_FailedConnectKeepsState ==
    [][/\ last_call'.method \in ConnectMethods
          => IF UrlParses(last_call'.wss) /\ last_call'.accepted
             THEN last_call'.result = "Ok" /\ socket' # NoSocket
             ELSE /\ last_call'.result = "Err"
                  /\ socket' = socket
                  /\ slots' = slots
       /\ socket' # socket
          => last_call'.method \in ConnectMethods /\ last_call'.result = "Ok"
      ]_vars

C11_Witness ==
    /\ last_call.method = "connect_multiple_streams"
    /\ last_call.result = "Err"
    /\ socket = WEBSOCKET_URL
    /\ market_handler # NoHandler

\* where the k-th name starts in the names joined, counted from 0: after the
\* names before it and one separator for each of them
RECURSIVE NameOffset(_, _)
NameOffset(names, k) ==
    IF k = 1 THEN 0
    ELSE NameOffset(names, k - 1) + Len(names[k - 1]) + 1

\* C12: the URL built by connect_multiple_streams is the multiplexed base
\* followed by the names in the order given, one '/' between two names and
\* none before the first or after the last; the URL built by connect is the
\* single-stream base followed by the endpoint as given.
C12_UrlBuilt ==
    /\ last_call.method = "connect"
       => last_call.wss =
             "wss://stream.binance.com:9443/ws/" \o last_call.endpoints[1]
    /\ last_call.method = "connect_multiple_streams"
       => LET base == "wss://stream.binance.com:9443/stream?streams="
              names == last_call.endpoints
              n == Len(names)
              wss == last_call.wss
              joined == SubSeq(wss, Len(base) + 1, Len(wss))
          IN /\ SubSeq(wss, 1, Len(base)) = base
             /\ Len(joined) =
                   IF n = 0 THEN 0
                   ELSE NameOffset(names, n) + Len(names[n])
             /\ \A k \in 1..n :
                   LET at == NameOffset(names, k)
                   IN /\ SubSeq(joined, at + 1, at + Len(names[k])) = names[k]
                      /\ k < n =>
                            SubSeq(joined, at + Len(names[k]) + 1,
                                   at + Len(names[k]) + 1) = "/"

C12_Witness ==
    /\ last_call.method = "connect_multiple_streams"
    /\ Len(last_call.endpoints) = 2
    /\ last_call.endpoints[1] # last_call.endpoints[2]
    /\ last_call.wss =
          "wss://stream.binance.com:9443/stream?streams="
          \o "bnbusdt@depth/bnbusdt@aggTrade"

\* the text of every enveloped payload with the text of its data field
EnvelopedTexts ==
    {[text |-> Ser(Envelope(n, p)), data |-> Ser(p)] :
        n \in StreamNames, p \in Payloads}

\* C13: for a frame {"stream":S,"data":P} that takes the envelope branch, the
\* recursive call of handle_msg is made on P, the text of the data field.
C13_EnvelopePayloadExtracted ==
    (Handled /\ trace[1] = STREAM)
    => \A e \in EnvelopedTexts :
          msg_opt[1] = e.text => Len(args) >= 2 /\ args[2] = e.data

\* C14: a frame that takes the envelope branch makes exactly one recursive
\* call of handle_msg.
C14_OneRecursion ==
    (Handled /\ trace[1] = STREAM) => Len(args) = 2

\* the frames of Frames that carry a family token, and the enveloped payloads
\* among them with the first family token of each and what the whole text
\* decodes to as that family
WithFamilyToken == {m \in Frames : FirstToken(m) \in FamilyTokens}
EnvelopedFamily ==
    {[text |-> e.text, token |-> FirstToken(e.text),
      decoded |-> DecodeAs(FirstToken(e.text), e.text)] :
        e \in {x \in EnvelopedTexts : FirstToken(x.text) \in FamilyTokens}}

\* sub is a run of consecutive characters of m
IsPartOf(sub, m) == sub = "" \/ Contains(m, sub)

\* C15: a frame that takes the envelope branch carries no family token, each
\* recursive call is made on a contiguous part of the string of the call
\* before, and no handler is invoked for the frame; an enveloped payload
\* that carries a family token takes the branch of that family on the whole
\* text, with no recursion, and is decoded as that family from the whole text.
C15_EnvelopeNeverDelivers ==
    Handled =>
        /\ trace[1] = STREAM
           => /\ msg_opt[1] \notin WithFamilyToken
              /\ \A k \in 2..Len(args) : IsPartOf(args[k], args[k - 1])
              /\ FrameCalls = <<>>
        /\ \A e \in EnvelopedFamily :
              msg_opt[1] = e.text
              => /\ trace = <<e.token>>
                 /\ args = <<e.text>>
                 /\ (pc = "loop") = e.decoded.ok
                 /\ \A i \in 1..Len(FrameCalls) :
                       /\ e.decoded.ok
                       /\ FrameCalls[i].event = e.decoded.event

C15_Witness ==
    /\ Handled
    /\ trace = <<STREAM, STREAM, "">>
    /\ kline_handler # NoHandler
    /\ market_handler # NoHandler
    /\ pc = "loop"

\* C16: handle_msg comes to an end on every frame: each recursive call is
\* made on a string shorter than the one of the call before, and the
\* recursion never runs without end.
C16_RecursionEnds ==
    Handled =>
        /\ pc # "aborted"
        /\ \A k \in 2..Len(args) : Len(args[k]) < Len(args[k - 1])

\* C17: once event_loop is entered on a dispatcher with no socket, it stays
\* at the top of its loop, able to go round once more: it has not panicked,
\* aborted or returned, has read no frame and has invoked no handler.
C17_NoSocketSpins ==
    (pc # "idle" /\ socket = NoSocket)
    => /\ pc = "loop"
       /\ ENABLED no_socket
       /\ source = "open"
       /\ nread = 0
       /\ msg_opt = <<>>
       /\ calls = <<>>

C17_Witness ==
    /\ pc = "loop"
    /\ socket = NoSocket
    /\ \A f \in DOMAIN last_added : this[f] # NoHandler

\* what handle_msg does with each frame of the source under each registry,
\* with no frame handled before
Registries ==
    [{"user_stream_handler", "market_handler", "ticker_handler",
      "kline_handler"} -> {NoHandler} \cup HandlerIds]
FirstFrameOutcomes ==
    [m \in SourceFrames |-> [reg \in Registries |-> handle_msg_outcomes(reg, m)]]

\* C18: while event_loop runs, no step changes the socket or a slot, and
\* the handling of a frame adds to the invocations made, and ends, as the
\* handling of that frame under the same registry with no frame before it.
C18_StatelessAcrossFrames ==
    [][/\ pc # "idle" => (socket' = socket /\ slots' = slots)
       /\ pc = "handle"
          => \E r \in FirstFrameOutcomes[msg_opt[1]][this] :
                /\ Len(calls') = Len(calls) + Len(r.calls)
                /\ SubSeq(calls', 1, Len(calls)) = calls
                /\ \A i \in 1..Len(r.calls) :
                      LET c == calls'[Len(calls) + i]
                      IN [handler |-> c.handler, method |-> c.method,
                          event |-> c.event] = r.calls[i]
                /\ (pc' = "loop") = (r.outcome = "return")
      ]_vars

C18_Witness ==
    /\ Handled
    /\ Len(calls) = 2
    /\ calls[1].frame = 1
    /\ calls[2].frame = 2
    /\ calls[1].msg = calls[2].msg
    /\ calls[1].event = calls[2].event
    /\ calls[1].handler = calls[2].handler

\* the slot each add method fills
SlotOfAdd ==
    [add_user_stream_handler |-> "user_stream_handler",
     add_market_handler |-> "market_handler",
     add_day_ticker_handler |-> "ticker_handler",
     add_kline_handler |-> "kline_handler"]

\* C19: a call of an add method stores its handler in the slot of its own
\* family and leaves the other three slots and the socket as they were.
C19_AddChangesOwnSlot ==
    [][last_call'.method \in DOMAIN SlotOfAdd
       => /\ socket' = socket
          /\ \A f \in DOMAIN last_added :
                this'[f] = IF f = SlotOfAdd[last_call'.method]
                           THEN last_call'.handler
                           ELSE this[f]
      ]_vars

C19_Witness ==
    /\ last_call.method = "add_day_ticker_handler"
    /\ last_call.handler = 2
    /\ replaced
    /\ ticker_handler = 2
    /\ kline_handler = 1
    /\ market_handler = 1
    /\ user_stream_handler = 1
    /\ socket # NoSocket

====
